---- MODULE Spec2Model ----
(***************************************************************************)
(* A model of aslam::NCameras (src/aslam_cv/src/ncameras.cc) and of the    *)
(* generic channel accessors of aslam::VisualFrame (visual-frame.h).       *)
(*                                                                         *)
(* A rig is a record of the members of NCameras.  C++ indices are 0-based; *)
(* element i of a std::vector is element i+1 of the TLA+ sequence.  A      *)
(* failed glog CHECK terminates the process: it is recorded in `fatal`     *)
(* and no further step is possible.                                        *)
(***************************************************************************)
EXTENDS Integers, Sequences, FiniteSets, TLC

VARIABLES rig, other, same, fatal, last, channels_, pre, written, added

vars == <<rig, other, same, fatal, last, channels_, pre, written, added>>

(* rig, other: two NCameras objects.  same: the result of comparing them  *)
(* with operator==, in both directions.  fatal: why the process has        *)
(* terminated, or "none".  last: the last call made on rig or on the      *)
(* frame.  channels_: the channel group of a VisualFrame; pre: the channel *)
(* group before the last call on the frame; written, added: the channels   *)
(* written so far (setChannelData, or through a mutable pointer) and the   *)
(* channels created so far by addChannel.                                  *)

(* ------------------------------ bounds -------------------------------- *)

\* The longest camera / transform list handed to the constructor.
MaxCameras == 2

(* ------------------------------ values -------------------------------- *)

\* Camera objects a caller holds (Camera::Ptr), and the null pointer.
Cameras == {"camA", "camB"}

nullptr == "nullptr"

CameraPtrs == Cameras \cup {nullptr}

\* Camera::getId(): every camera object has its own identity, which no
\* call changes.
getId(camera) == IF camera = "camA" THEN "idA" ELSE "idB"

\* The ids a caller may look up; "idX" is the id of no camera.
CameraIds == {"idA", "idB", "idX"}

Transformations == {"T0", "T1"}

NCamerasIds == {"rig1", "rig2"}

Labels == {"left", "right"}

\* The indices a caller passes; MaxCameras is out of range for every rig.
Indices == 0..MaxCameras

SeqsUpTo(S) == UNION {[1..n -> S] : n \in 0..MaxCameras}

EmptyMap == [x \in {} |-> 0]

\* The value getCameraIndex returns for an unknown id (size_t(-1)).
kNotFound == -1

(* ----------------------- outcomes of a call --------------------------- *)

\* The call returned `ret`, leaving the rig as `r`.
Returned(r, ret) == [rig |-> r, ret |-> ret, fatal |-> "none"]

\* A glog CHECK failed (or the process crashed): the rig is left as `r`.
Aborted(r, why) == [rig |-> r, ret |-> "FATAL", fatal |-> why]

(* ----------------------------- NCameras ------------------------------- *)

\* NCameras::NCameras(): an empty rig.  `ctor` is not a member: it records
\* which constructor built the object.
NCamerasDefault ==
  [ctor |-> "default", id_ |-> "invalid", label_ |-> "",
   T_C_B_ |-> <<>>, cameras_ |-> <<>>, idToIndex_ |-> EmptyMap]

\* NCameras::NCameras(const sm::PropertyTree&): CHECK(false), not implemented.
NCamerasFromPropertyTree(r) == Aborted(r, "CHECK")

\* size_t getNumCameras() const
getNumCameras(r) == Len(r.cameras_)

\* size_t numCameras() const
numCameras(r) == Len(r.cameras_)

\* The loop of initInternal from index i on: the first null camera fails
\* CHECK_NOTNULL, otherwise idToIndex_[cameras_[i]->getId()] = i.
RECURSIVE initLoop(_, _, _)
initLoop(cameras, i, map) ==
  IF ~(i < Len(cameras)) THEN [map |-> map, fatal |-> "none"]
  ELSE IF cameras[i + 1] = nullptr THEN [map |-> map, fatal |-> "CHECK_NOTNULL"]
  ELSE initLoop(cameras, i + 1, (getId(cameras[i + 1]) :> i) @@ map)

initInternal_NoSizeCheck(r) ==
  LET built == initLoop(r.cameras_, 0, EmptyMap)
  IN  IF built.fatal # "none" THEN Aborted(r, built.fatal)
      ELSE Returned([r EXCEPT !.idToIndex_ = built.map], "void")

\* void NCameras::initInternal()
initInternal(r) ==
  IF Len(r.cameras_) # Len(r.T_C_B_) THEN Aborted(r, "CHECK_EQ")
  ELSE LET built == initLoop(r.cameras_, 0, EmptyMap)
       IN  IF built.fatal # "none" THEN Aborted(r, built.fatal)
           ELSE Returned([r EXCEPT !.idToIndex_ = built.map], "void")

\* NCameras::NCameras(id, T_C_B, cameras, label)
NCameras(id, T_C_B, cameras, label) ==
  initInternal([ctor |-> "lists", id_ |-> id, label_ |-> label,
                T_C_B_ |-> T_C_B, cameras_ |-> cameras,
                idToIndex_ |-> EmptyMap])

\* const Transformation& get_T_C_B(size_t cameraIndex) const
get_T_C_B(r, cameraIndex) ==
  IF ~(cameraIndex < Len(r.cameras_)) THEN Aborted(r, "CHECK_LT")
  ELSE Returned(r, r.T_C_B_[cameraIndex + 1])

\* Transformation& get_T_C_B_mutable(size_t cameraIndex); the caller writes
\* `T_Ci_B` through the reference it gets.
get_T_C_B_mutable(r, cameraIndex, T_Ci_B) ==
  IF ~(cameraIndex < Len(r.cameras_)) THEN Aborted(r, "CHECK_LT")
  ELSE Returned([r EXCEPT !.T_C_B_[cameraIndex + 1] = T_Ci_B],
                r.T_C_B_[cameraIndex + 1])

\* void set_T_C_B(size_t cameraIndex, const Transformation& T_Ci_B)
set_T_C_B(r, cameraIndex, T_Ci_B) ==
  IF ~(cameraIndex < Len(r.T_C_B_)) THEN Aborted(r, "CHECK_LT")
  ELSE Returned([r EXCEPT !.T_C_B_[cameraIndex + 1] = T_Ci_B], "void")

\* const TransformationVector& getTransformationVector() const
getTransformationVector(r) == r.T_C_B_

\* const Camera& getCamera(size_t cameraIndex) const
getCamera(r, cameraIndex) ==
  IF ~(cameraIndex < Len(r.cameras_)) THEN Aborted(r, "CHECK_LT")
  ELSE IF r.cameras_[cameraIndex + 1] = nullptr THEN Aborted(r, "CHECK_NOTNULL")
  ELSE Returned(r, r.cameras_[cameraIndex + 1])

\* Camera::Ptr getCameraMutable(size_t cameraIndex)
getCameraMutable(r, cameraIndex) ==
  IF ~(cameraIndex < Len(r.cameras_)) THEN Aborted(r, "CHECK_LT")
  ELSE Returned(r, r.cameras_[cameraIndex + 1])

\* An index past the end is clamped to the last element instead of failing.
setCamera_Clamped(r, cameraIndex, camera) ==
  IF Len(r.cameras_) = 0 THEN Returned(r, "void")
  ELSE LET i == IF cameraIndex < Len(r.cameras_) THEN cameraIndex
                ELSE Len(r.cameras_) - 1
       IN  Returned([r EXCEPT !.cameras_[i + 1] = camera], "void")

\* void setCamera(size_t cameraIndex, Camera::Ptr camera)
setCamera(r, cameraIndex, camera) ==
  IF ~(cameraIndex < Len(r.cameras_)) THEN Aborted(r, "CHECK_LT")
  ELSE Returned([r EXCEPT !.cameras_[cameraIndex + 1] = camera], "void")

\* const std::vector<Camera::Ptr>& getCameraVector() const
getCameraVector(r) == r.cameras_

\* const CameraId& getCameraId(size_t cameraIndex) const: the outcomes of
\* the call.  cameras_[cameraIndex]->getId() on a null pointer is undefined:
\* the process crashes or some id is read.
getCameraId(r, cameraIndex) ==
  IF ~(cameraIndex < Len(r.cameras_)) THEN {Aborted(r, "CHECK_LT")}
  ELSE IF r.cameras_[cameraIndex + 1] = nullptr
       THEN {Aborted(r, "SIGSEGV")} \cup {Returned(r, id) : id \in CameraIds}
  ELSE {Returned(r, getId(r.cameras_[cameraIndex + 1]))}

\* bool hasCameraWithId(const CameraId& id) const
hasCameraWithId(r, id) == id \in DOMAIN r.idToIndex_

\* size_t getCameraIndex(const CameraId& id) const
getCameraIndex(r, id) ==
  IF id \notin DOMAIN r.idToIndex_ THEN kNotFound ELSE r.idToIndex_[id]

\* aslam::checkSharedEqual(lhs, rhs): both null, or both set and the
\* cameras equal.  Camera equality is value equality over the identity.
checkSharedEqual(lhs, rhs) ==
  IF lhs # nullptr /\ rhs # nullptr THEN getId(lhs) = getId(rhs)
  ELSE lhs = nullptr /\ rhs = nullptr

\* The loop of operator== from index i on, `same` accumulated with &=.
RECURSIVE eqLoop(_, _, _, _)
eqLoop(a, b, i, acc) ==
  IF ~(i < getNumCameras(a)) THEN acc
  ELSE eqLoop(a, b, i + 1,
              (acc /\ checkSharedEqual(a.cameras_[i + 1], b.cameras_[i + 1]))
                /\ a.T_C_B_[i + 1] = b.T_C_B_[i + 1])

\* Only the first camera and transform are compared.
operatorEq_FirstOnly(a, b) ==
  LET s3 == /\ getNumCameras(a) = getNumCameras(b)
            /\ a.label_ = b.label_
            /\ a.id_ = b.id_
  IN  IF s3 /\ getNumCameras(a) > 0
      THEN /\ checkSharedEqual(a.cameras_[1], b.cameras_[1])
           /\ a.T_C_B_[1] = b.T_C_B_[1]
      ELSE s3

\* bool NCameras::operator==(const NCameras& other) const
operatorEq(a, b) ==
  LET s1 == TRUE /\ (getNumCameras(a) = getNumCameras(b))
      s2 == s1 /\ (a.label_ = b.label_)
      s3 == s2 /\ (a.id_ = b.id_)
  IN  IF s3 THEN eqLoop(a, b, 0, s3) ELSE s3

\* What a caller comparing the two rigs sees, in both directions.
Compared(a, b) == [fwd |-> operatorEq(a, b), bwd |-> operatorEq(b, a)]

(* ------------------- aslam::channels (channel.h) ---------------------- *)

ChannelNames == {"VISUAL_KEYPOINT_MEASUREMENTS", "IMAGE", "EXTRA"}

\* The data a caller stores; "empty" is a default-constructed value.
ChannelData == {"empty", "d1", "d2"}

EmptyChannelGroup == [x \in {} |-> "empty"]

\* bool channels::hasChannel(name, channels)
channels_hasChannel(channel, channels) == channel \in DOMAIN channels

\* void channels::addChannel<T>(name, &channels): a new channel holding a
\* default-constructed value.
channels_addChannel(channel, channels) == (channel :> "empty") @@ channels

\* T& channels::getChannelData<T>(name, channels)
channels_getChannelData(channel, channels) == channels[channel]

(* --------------------------- VisualFrame ------------------------------ *)

\* bool VisualFrame::hasChannel(channel) const
hasChannel(channel, channels) == channels_hasChannel(channel, channels)

\* void VisualFrame::addChannel<T>(channel)
addChannel(channel, channels) == channels_addChannel(channel, channels)

\* const T& VisualFrame::getChannelData<T>(channel) const
getChannelData(channel, channels) == channels_getChannelData(channel, channels)

\* The data is stored only in a channel that existed before the call.
setChannelData_NewLeftEmpty(channel, data_new, channels) ==
  IF ~channels_hasChannel(channel, channels)
  THEN channels_addChannel(channel, channels)
  ELSE [channels EXCEPT ![channel] = data_new]

\* void VisualFrame::setChannelData<T>(channel, data_new): the channel
\* group after the call.
setChannelData(channel, data_new, channels) ==
  LET added_ == IF ~channels_hasChannel(channel, channels)
                THEN channels_addChannel(channel, channels)
                ELSE channels
  IN  [added_ EXCEPT ![channel] = data_new]

(* ------------------------------ state --------------------------------- *)

\* No call has been made yet.  A call is recorded with its operation, the
\* integers and the other values it was passed, and what it returned.
NoCall == [op |-> "none", index |-> <<>>, text |-> <<>>, ret |-> "none"]

\* A rig built by the list constructor from arguments it accepts.
Constructed(ids, labels) ==
  {NCameras(id, T, cams, label).rig :
     <<id, label, T, cams>> \in
       {a \in ids \X labels \X SeqsUpTo(Transformations) \X SeqsUpTo(Cameras) :
          NCameras(a[1], a[3], a[4], a[2]).fatal = "none"}}

\* VisualFrame::VisualFrame(): a frame with no channel.
FrameInit ==
  /\ channels_ = EmptyChannelGroup
  /\ pre = EmptyChannelGroup
  /\ written = {}
  /\ added = {}

\* Two default-constructed rigs and an empty frame.
Init ==
  /\ rig = NCamerasDefault
  /\ other = NCamerasDefault
  /\ same = Compared(NCamerasDefault, NCamerasDefault)
  /\ fatal = "none"
  /\ last = NoCall
  /\ FrameInit

(* ------------------------- calls on `rig` ----------------------------- *)

\* A call on `rig` with outcome `out`; `last` records the call.
Call(op, index, text, out) ==
  /\ fatal = "none"
  /\ rig' = out.rig
  /\ fatal' = out.fatal
  /\ same' = Compared(out.rig, other)
  /\ last' = [op |-> op, index |-> index, text |-> text, ret |-> out.ret]
  /\ UNCHANGED <<other, channels_, pre, written, added>>

Construct ==
  /\ rig.ctor = "default"
  /\ \E id \in NCamerasIds, label \in Labels,
        T_C_B \in SeqsUpTo(Transformations), cameras \in SeqsUpTo(CameraPtrs) :
       LET out == NCameras(id, T_C_B, cameras, label)
       IN  Call("NCameras", <<Len(T_C_B)>>, cameras,
                IF out.fatal = "none" THEN out ELSE Aborted(rig, out.fatal))

\* The object is built from a property tree instead.
ConstructFromPropertyTree ==
  /\ rig.ctor = "default"
  /\ Call("NCameras(PropertyTree)", <<>>, <<>>, NCamerasFromPropertyTree(rig))

GetNumCameras ==
  Call("numCameras", <<>>, <<>>, Returned(rig, ToString(numCameras(rig))))

Get_T_C_B == \E i \in Indices : Call("get_T_C_B", <<i>>, <<>>, get_T_C_B(rig, i))

Get_T_C_B_mutable ==
  \E i \in Indices, T \in Transformations :
    Call("get_T_C_B_mutable", <<i>>, <<T>>, get_T_C_B_mutable(rig, i, T))

Set_T_C_B ==
  \E i \in Indices, T \in Transformations :
    Call("set_T_C_B", <<i>>, <<T>>, set_T_C_B(rig, i, T))

GetTransformationVector ==
  Call("getTransformationVector", <<>>, <<>>,
       Returned(rig, ToString(getTransformationVector(rig))))

GetCameraVector ==
  Call("getCameraVector", <<>>, <<>>,
       Returned(rig, ToString(getCameraVector(rig))))

GetCamera == \E i \in Indices : Call("getCamera", <<i>>, <<>>, getCamera(rig, i))

GetCameraMutable ==
  \E i \in Indices : Call("getCameraMutable", <<i>>, <<>>, getCameraMutable(rig, i))

SetCamera ==
  \E i \in Indices, camera \in CameraPtrs :
    Call("setCamera", <<i>>, <<camera>>, setCamera(rig, i, camera))

GetCameraId ==
  \E i \in Indices :
    \E out \in getCameraId(rig, i) : Call("getCameraId", <<i>>, <<>>, out)

HasCameraWithId ==
  \E id \in CameraIds :
    Call("hasCameraWithId", <<>>, <<id>>,
         Returned(rig, ToString(hasCameraWithId(rig, id))))

GetCameraIndex ==
  \E id \in CameraIds :
    Call("getCameraIndex", <<>>, <<id>>,
         Returned(rig, ToString(getCameraIndex(rig, id))))

Equals ==
  Call("operator==", <<>>, <<>>, Returned(rig, ToString(operatorEq(rig, other))))

Next ==
  \/ Construct
  \/ ConstructFromPropertyTree
  \/ GetNumCameras
  \/ GetTransformationVector
  \/ GetCameraVector
  \/ Get_T_C_B
  \/ Get_T_C_B_mutable
  \/ Set_T_C_B
  \/ GetCamera
  \/ GetCameraMutable
  \/ SetCamera
  \/ GetCameraId
  \/ HasCameraWithId
  \/ GetCameraIndex
  \/ Equals

Spec == Init /\ [][Next]_vars

(* ---------------------- two rigs under operator== --------------------- *)

\* Two rigs built by the list constructor, compared.  The first keeps one
\* rig id and label and is left as built; the second takes every id and
\* label and is the one the mutators are called on.
InitEq ==
  /\ rig \in Constructed({"rig1"}, {"left"})
  /\ other \in Constructed(NCamerasIds, Labels)
  /\ same = Compared(rig, other)
  /\ fatal = "none"
  /\ last = NoCall
  /\ FrameInit

\* A call on `other` with outcome `out`, and the comparison after it.
CallOther(out) ==
  /\ fatal = "none"
  /\ other' = out.rig
  /\ fatal' = out.fatal
  /\ same' = Compared(rig, out.rig)
  /\ UNCHANGED <<rig, last, channels_, pre, written, added>>

OtherSetCamera ==
  \E i \in Indices, camera \in CameraPtrs : CallOther(setCamera(other, i, camera))

OtherSet_T_C_B ==
  \E i \in Indices, T \in Transformations : CallOther(set_T_C_B(other, i, T))

OtherGet_T_C_B_mutable ==
  \E i \in Indices, T \in Transformations :
    CallOther(get_T_C_B_mutable(other, i, T))

NextEq ==
  \/ OtherSetCamera
  \/ OtherSet_T_C_B
  \/ OtherGet_T_C_B_mutable

SpecEq == InitEq /\ [][NextEq]_vars

(* ---------------------- calls on the frame ---------------------------- *)

\* A call on the frame: the channel group becomes `channels`; `pre` keeps
\* the channel group the call started from.
FrameCall(op, text, ret, why, channels) ==
  /\ fatal = "none"
  /\ pre' = channels_
  /\ channels_' = channels
  /\ fatal' = why
  /\ last' = [op |-> op, index |-> <<>>, text |-> text, ret |-> ret]
  /\ UNCHANGED <<rig, other, same>>

\* frame.addChannel<T>(channel).  channels::addChannel on a name that is
\* taken either fails its check or replaces the value by a default one.
FrameAddChannel ==
  \E channel \in ChannelNames :
    \/ /\ FrameCall("addChannel", <<channel>>, "void", "none",
                    addChannel(channel, channels_))
       /\ added' = added \cup {channel}
       /\ UNCHANGED written
    \/ /\ hasChannel(channel, channels_)
       /\ FrameCall("addChannel", <<channel>>, "FATAL", "CHECK",
                    channels_)
       /\ UNCHANGED <<written, added>>

FrameHasChannel ==
  \E channel \in ChannelNames :
    /\ FrameCall("hasChannel", <<channel>>,
                 ToString(hasChannel(channel, channels_)), "none", channels_)
    /\ UNCHANGED <<written, added>>

\* frame.getChannelData<T>(channel): reading an absent channel is fatal.
FrameGetChannelData ==
  \E channel \in ChannelNames :
    /\ IF hasChannel(channel, channels_)
       THEN FrameCall("getChannelData", <<channel>>,
                      getChannelData(channel, channels_), "none", channels_)
       ELSE FrameCall("getChannelData", <<channel>>, "FATAL", "CHECK",
                      channels_)
    /\ UNCHANGED <<written, added>>

\* frame.getChannelDataMutable<T>(channel): the caller writes `data_new`
\* through the pointer it gets.
FrameGetChannelDataMutable ==
  \E channel \in ChannelNames, data_new \in ChannelData :
    IF hasChannel(channel, channels_)
    THEN /\ FrameCall("getChannelDataMutable", <<channel, data_new>>, "ptr",
                      "none", [channels_ EXCEPT ![channel] = data_new])
         /\ written' = written \cup {channel}
         /\ UNCHANGED added
    ELSE /\ FrameCall("getChannelDataMutable", <<channel, data_new>>, "FATAL",
                      "CHECK", channels_)
         /\ UNCHANGED <<written, added>>

FrameSetChannelData ==
  \E channel \in ChannelNames, data_new \in ChannelData :
    /\ FrameCall("setChannelData", <<channel, data_new>>, "void", "none",
                 setChannelData(channel, data_new, channels_))
    /\ written' = written \cup {channel}
    /\ UNCHANGED added

NextFrame ==
  \/ FrameAddChannel
  \/ FrameHasChannel
  \/ FrameGetChannelData
  \/ FrameGetChannelDataMutable
  \/ FrameSetChannelData

SpecFrame == Init /\ [][NextFrame]_vars

(* ------------------------------ properties ---------------------------- *)

\* The ids of the cameras the rig currently holds.
IdsInRig(r) ==
  {getId(r.cameras_[i]) : i \in {j \in 1..Len(r.cameras_) : r.cameras_[j] # nullptr}}

\* The lookup by id agrees with the camera sequence: an id is found exactly
\* when a camera of the rig has it, at an index where such a camera sits.
LookupMatchesCameras(r) ==
  \A id \in CameraIds :
    /\ hasCameraWithId(r, id) <=> id \in IdsInRig(r)
    /\ hasCameraWithId(r, id) =>
         /\ getCameraIndex(r, id) \in 0..(numCameras(r) - 1)
         /\ r.cameras_[getCameraIndex(r, id) + 1] # nullptr
         /\ getId(r.cameras_[getCameraIndex(r, id) + 1]) = id

\* The constructor arguments recorded in `call` (the length of the
\* transform list, and the camera list) are ones it must reject: lists of
\* different lengths, or a null camera.
RejectedArguments(call) ==
  \/ call.index[1] # Len(call.text)
  \/ \E i \in 1..Len(call.text) : call.text[i] = nullptr

\* The operations that take a camera index.
IndexOps ==
  {"getCamera", "getCameraMutable", "setCamera", "getCameraId",
   "get_T_C_B", "get_T_C_B_mutable", "set_T_C_B"}

\* C1: right after construction from N cameras and N transforms,
\* getCameraIndex(getCameraId(i)) = i for every index i < N, and
\* hasCameraWithId is false for every id that no camera of the rig has.
C1_IndexOfIdAfterConstruction ==
  (last.op = "NCameras" /\ fatal = "none") =>
    /\ \A i \in 0..(numCameras(rig) - 1) :
         getCameraIndex(rig, getId(rig.cameras_[i + 1])) = i
    /\ \A id \in CameraIds \ IdsInRig(rig) : ~hasCameraWithId(rig, id)

\* Every camera reference of the rig is set.
NoNullCamera(r) == \A i \in 1..Len(r.cameras_) : r.cameras_[i] # nullptr

\* C2: in every state of a constructed rig, whatever calls were made on it,
\* hasCameraWithId(id) is true exactly when a camera of the rig has that id
\* and getCameraIndex(id) is an index at which such a camera sits (stated
\* for the rigs all of whose camera references are set).
C2_LookupConsistentWithCameras ==
  (rig.ctor = "lists" /\ NoNullCamera(rig)) => LookupMatchesCameras(rig)

\* C3: every camera reference a rig holds is non-null in every state, so
\* that no call dereferences a null camera.
C3_CamerasNeverNull ==
  /\ NoNullCamera(rig)
  /\ fatal # "SIGSEGV"

\* C4: constructing a rig from lists of different lengths or with a null
\* camera reports an invalid-argument error to the caller: the process
\* goes on, and no rig is built.
C4_ConstructionErrorRecoverable ==
  (last.op = "NCameras" /\ RejectedArguments(last)) =>
    /\ fatal = "none"
    /\ last.ret = "invalid_argument"
    /\ rig.ctor = "default"

\* C5: a call of an index-taking operation with index >= numCameras() ends
\* in an error, returns nothing and leaves cameras, transforms and the id
\* map as they were; with index < numCameras() it passes the bounds check.
C5_IndexBoundsChecked ==
  [][(fatal = "none" /\ last'.op \in IndexOps) =>
       IF last'.index[1] >= numCameras(rig)
       THEN fatal' = "CHECK_LT" /\ last'.ret = "FATAL" /\ rig' = rig
       ELSE fatal' # "CHECK_LT"]_vars

\* C5 witness: an index-taking call at index >= numCameras() on a rig that
\* holds cameras has ended in the bounds error.
C5_Witness ==
  /\ last.op \in IndexOps
  /\ numCameras(rig) > 0
  /\ last.index[1] >= numCameras(rig)
  /\ fatal = "CHECK_LT"

\* Same camera count, label and rig id, and at every index equal cameras
\* and equal transforms.
EqualFieldByField(a, b) ==
  /\ Len(a.cameras_) = Len(b.cameras_)
  /\ a.label_ = b.label_
  /\ a.id_ = b.id_
  /\ \A i \in 1..Len(a.cameras_) :
       /\ checkSharedEqual(a.cameras_[i], b.cameras_[i])
       /\ a.T_C_B_[i] = b.T_C_B_[i]

\* C6: operator== is true if and only if both rigs have the same camera
\* count, label and rig id and, at every index, equal cameras and equal
\* transforms (in whichever direction the rigs are compared).
C6_EqualIffFieldsEqual ==
  /\ same.fwd = EqualFieldByField(rig, other)
  /\ same.bwd = EqualFieldByField(other, rig)

\* C6 witness: two rigs of at least two cameras compare equal although
\* they were built from different cameras (their id maps differ).
C6_Witness ==
  /\ numCameras(rig) >= 2
  /\ numCameras(other) >= 2
  /\ same.fwd
  /\ other.idToIndex_ # rig.idToIndex_

\* C7: the transform sequence and the camera sequence have equal length in
\* every state, so get_T_C_B (checked against cameras_.size()) and
\* set_T_C_B (checked against T_C_B_.size()) accept the same indices.
C7_SequencesSameLength ==
  /\ Len(rig.T_C_B_) = Len(rig.cameras_)
  /\ \A i \in Indices :
       (get_T_C_B(rig, i).fatal = "none") <=> (set_T_C_B(rig, i, "T0").fatal = "none")

\* C7 witness: a constructed rig of two cameras after a transform was set.
C7_Witness ==
  /\ rig.ctor = "lists"
  /\ numCameras(rig) = 2
  /\ last.op = "set_T_C_B"
  /\ fatal = "none"

\* Default-constructed: no cameras, empty id map.
Uninitialized(r) ==
  r.ctor = "default" /\ numCameras(r) = 0 /\ DOMAIN r.idToIndex_ = {}

\* Constructed from lists, and the derived id map valid.
Initialized(r) == r.ctor = "lists" /\ LookupMatchesCameras(r)

\* C8: a rig is always in exactly one of two states, uninitialized or
\* initialized with a valid derived map (stated for the rigs all of whose
\* camera references are set).
C8_UninitializedOrInitialized ==
  NoNullCamera(rig) =>
    \/ Uninitialized(rig) /\ ~Initialized(rig)
    \/ Initialized(rig) /\ ~Uninitialized(rig)

\* No call on a constructed rig changes numCameras() or makes the rig a
\* default-constructed one again.
NumCamerasStable ==
  [][rig.ctor = "lists" =>
       rig'.ctor = "lists" /\ numCameras(rig') = numCameras(rig)]_vars

\* What setChannelData(name, d) leaves behind: the channel is present and
\* holds d, and every other channel is present or absent, with the same
\* contents, as before the call.
SetChannelDataEffect ==
  (last.op = "setChannelData" /\ fatal = "none") =>
    /\ hasChannel(last.text[1], channels_)
    /\ getChannelData(last.text[1], channels_) = last.text[2]
    /\ \A c \in ChannelNames \ {last.text[1]} :
         /\ hasChannel(c, channels_) <=> hasChannel(c, pre)
         /\ hasChannel(c, channels_) =>
              getChannelData(c, channels_) = getChannelData(c, pre)

C10_EqualRigsSameLookups ==
  same.fwd =>
    \A id \in CameraIds :
      /\ hasCameraWithId(rig, id) = hasCameraWithId(other, id)
      /\ getCameraIndex(rig, id) = getCameraIndex(other, id)

====
